---- MODULE Spec2Model ----
(***************************************************************************)
(* ziplayer: the ZIP reader of src/src/reader.rs.  A byte source is a      *)
(* sequence of bytes (0..255) read through a cursor `pos`; offsets are     *)
(* 0-based as in the code, so byte o of source s is s[o + 1].              *)
(***************************************************************************)
EXTENDS Integers, Sequences, FiniteSets, TLC

\* ------------------------------------------------------------------ bounds
\* Largest number of members of a generated archive.
MaxMembers == 2
\* Largest number of bytes in front of the signature of a raw byte source.
MaxRaw == 2
\* Largest starting hint handed to the signature scanner.
MaxHint == 2

\* --------------------------------------------------------------- constants
EOCD_SIG == 101010256
\* 0x06054b50
CD_SIG == 33639248
\* 0x02014b50
LFH_SIG == 67324752
\* 0x04034b50

\* ------------------------------------------------------------ byte helpers
Max(a, b) == IF a >= b THEN a ELSE b

\* Little-endian bytes of an unsigned value.
U16(n) == << n % 256, (n \div 256) % 256 >>
U32(n) == << n % 256, (n \div 256) % 256, (n \div 65536) % 256, (n \div 16777216) % 256 >>

\* read_u16 / read_u32 (LittleEndian) of the bytes at offset o; the caller
\* has checked that they lie inside the source.
ReadU16(s, o) == s[o + 1] + 256 * s[o + 2]
ReadU32(s, o) == s[o + 1] + 256 * s[o + 2] + 65536 * s[o + 3] + 16777216 * s[o + 4]

\* The n bytes that read_exact returns at offset o.
Bytes(s, o, n) == SubSeq(s, o + 1, o + n)

\* Option<u64>: None is <<>>, Some(h) is <<h>>.
None == << >>
Some(h) == << h >>

\* Result values.  A failed read_exact / read_uXX is io::ErrorKind::UnexpectedEof.
EofError == [kind |-> "IOError", io |-> "UnexpectedEof", a |-> 0, b |-> 0, path |-> << >>]
Ok(v, p) == [ok |-> TRUE, val |-> v, err |-> << >>, pos |-> p]
Err(e, p) == [ok |-> FALSE, val |-> << >>, err |-> e, pos |-> p]
\* A read that runs into the end of the source consumes what is left.
Eof(s, p) == Err(EofError, Max(p, Len(s)))

\* ------------------------------------------------------- Signature scanner
\* The loop of find_next_signature from read position p.  Bytes are read one
\* at a time until one equals the signature's first byte (at q); then one
\* more byte is read and the two are compared with the low 16 bits; on a
\* match a u16 is read and compared with the high 16 bits.  Bytes read by a
\* failed candidate are not read again: the loop goes on after them.
\* (q, the offset of the candidate, is bound once, as the one element of a
\* set.)
RECURSIVE ScanLoop(_, _, _)
ScanLoop(s, p, signature) ==
    LET sig_lower == signature % 65536
        sig_upper == signature \div 65536
        sig_fbyte == signature % 256
        firsts == { o \in p..(Len(s) - 1) : s[o + 1] = sig_fbyte }
    IN  IF firsts = {} THEN Eof(s, p)
        ELSE CHOOSE r \in {
                 IF q + 2 > Len(s) THEN Eof(s, q + 1)
                 ELSE IF s[q + 2] * 256 + s[q + 1] # sig_lower THEN ScanLoop(s, q + 2, signature)
                 ELSE IF q + 4 > Len(s) THEN Eof(s, q + 2)
                 ELSE IF ReadU16(s, q + 2) # sig_upper THEN ScanLoop(s, q + 4, signature)
                 ELSE Ok((q + 4) - 4, q + 4)
               : q \in { o \in firsts : \A o2 \in firsts : o <= o2 } } : TRUE

\* find_next_signature(reader, signature, hint): the scan starts at the hint,
\* or at the read position; on success the read position is put back to
\* start_pos, on failure `?` returns with the position where the read failed.
find_next_signature(s, pos, signature, hint) ==
    LET start_pos == pos
        from == IF hint = None THEN pos ELSE hint[1]
        r == ScanLoop(s, from, signature)
    IN  IF r.ok THEN Ok(r.val, start_pos) ELSE r

\* A ZipError value: its kind, the io::ErrorKind of an IOError, up to two
\* numeric payloads and a path payload.
ZipError(kind, io, a, b) == [kind |-> kind, io |-> io, a |-> a, b |-> b, path |-> << >>]

\* ------------------------------------------------------------------- UTF-8
\* String::from_utf8: whether the bytes are well-formed UTF-8.
IsCont(b) == b >= 128 /\ b <= 191
RECURSIVE Utf8Valid(_, _)
Utf8Valid(b, i) ==
    IF i > Len(b) THEN TRUE
    ELSE LET c == b[i]
             has(n) == i + n <= Len(b)
         IN  IF c < 128 THEN Utf8Valid(b, i + 1)
             ELSE IF c >= 194 /\ c <= 223
                  THEN has(1) /\ IsCont(b[i + 1]) /\ Utf8Valid(b, i + 2)
             ELSE IF c >= 224 /\ c <= 239
                  THEN /\ has(2)
                       /\ IsCont(b[i + 1]) /\ IsCont(b[i + 2])
                       /\ (c = 224 => b[i + 1] >= 160)
                       /\ (c = 237 => b[i + 1] <= 159)
                       /\ Utf8Valid(b, i + 3)
             ELSE IF c >= 240 /\ c <= 244
                  THEN /\ has(3)
                       /\ IsCont(b[i + 1]) /\ IsCont(b[i + 2]) /\ IsCont(b[i + 3])
                       /\ (c = 240 => b[i + 1] >= 144)
                       /\ (c = 244 => b[i + 1] <= 143)
                       /\ Utf8Valid(b, i + 4)
             ELSE FALSE

\* ------------------------------------------------------------------- paths
\* A PathBuf is compared, ordered and resolved by its components, so a path
\* is modelled by them: whether it starts at the root, and its components in
\* order.  "." is <<46>>, ".." is <<46, 46>>, "/" is byte 47.
Slash == 47
\* 0x2F: the separator std::path uses on Unix.
CurDir == << 46 >>
ParentDir == << 46, 46 >>
EmptyPath == [abs |-> FALSE, comps |-> << >>]

\* The bytes between separators, empty segments included.
RECURSIVE Segments(_, _, _)
Segments(b, i, cur) ==
    IF i > Len(b) THEN << cur >>
    ELSE IF b[i] = Slash THEN << cur >> \o Segments(b, i + 1, << >>)
    ELSE Segments(b, i + 1, Append(cur, b[i]))

\* std::path::Components: repeated and trailing separators vanish, "." is
\* kept only as the first component of a relative path.
RECURSIVE KeepComponents(_, _, _)
KeepComponents(segs, i, abs) ==
    IF i > Len(segs) THEN << >>
    ELSE LET rest == KeepComponents(segs, i + 1, abs)
         IN  IF segs[i] = << >> THEN rest
             ELSE IF segs[i] = CurDir /\ ~(i = 1 /\ ~abs) THEN rest
             ELSE << segs[i] >> \o rest

\* PathBuf::from(String::from_utf8(buf)?): the path of a filename field.
PathOf(b) ==
    LET abs == Len(b) > 0 /\ b[1] = Slash
    IN  [abs |-> abs, comps |-> KeepComponents(Segments(b, 1, << >>), 1, abs)]

\* Path::join (PathBuf::push): an absolute argument replaces the base.
Join(base, p) ==
    IF p.abs THEN p
    ELSE IF base = EmptyPath THEN p
    ELSE [abs |-> base.abs,
          comps |-> base.comps \o
                    (IF Len(p.comps) > 0 /\ p.comps[1] = CurDir THEN Tail(p.comps) ELSE p.comps)]

\* ------------------------------------------------------ Structure decoders
\* parse_central_dir(data, offset): seek to offset, check the signature, read
\* the 42 bytes of fixed fields and the three variable-length fields.  The
\* reads are sequential, so when the source is too short for a field the
\* read of the first incomplete field fails with UnexpectedEof.
parse_central_dir(s, offset) ==
    IF offset + 4 > Len(s) THEN Eof(s, offset)
    ELSE IF ReadU32(s, offset) # CD_SIG
         THEN Err(ZipError("InvalidSignature", "", ReadU32(s, offset), 0), offset + 4)
    ELSE IF offset + 46 > Len(s) THEN Eof(s, offset + 4)
    ELSE LET fname_len == ReadU16(s, offset + 28)
             extra_len == ReadU16(s, offset + 30)
             comment_len == ReadU16(s, offset + 32)
             uncompressed_size == ReadU32(s, offset + 24)
             fname == Bytes(s, offset + 46, fname_len)
             end == offset + 46 + fname_len + extra_len + comment_len
         IN  IF offset + 46 + fname_len > Len(s) THEN Eof(s, offset + 46)
             ELSE IF ~Utf8Valid(fname, 1)
                  THEN Err(ZipError("InvalidUtf8", "", 0, 0), offset + 46 + fname_len)
             ELSE IF end > Len(s) THEN Eof(s, offset + 46 + fname_len)
             ELSE Ok([offset |-> offset,
                      version_made_by |-> ReadU16(s, offset + 4),
                      version_needed_to_extract |-> ReadU16(s, offset + 6),
                      flags |-> ReadU16(s, offset + 8),
                      compression |-> ReadU16(s, offset + 10),
                      last_mod_time |-> ReadU16(s, offset + 12),
                      last_mod_date |-> ReadU16(s, offset + 14),
                      crc32 |-> ReadU32(s, offset + 16),
                      compressed_size |-> ReadU32(s, offset + 20),
                      uncompressed_size |-> uncompressed_size,
                      filename |-> PathOf(fname),
                      extra_field |-> Bytes(s, offset + 46 + fname_len, extra_len),
                      file_comment |-> Bytes(s, offset + 46 + fname_len + extra_len, comment_len),
                      disk_number_start |-> ReadU16(s, offset + 34),
                      internal_file_attributes |-> ReadU16(s, offset + 36),
                      external_file_attributes |-> ReadU32(s, offset + 38),
                      local_header_rel_offset |-> ReadU32(s, offset + 42),
                      is_directory |-> (uncompressed_size = 0),
                      len |-> end - offset],
                     end)

\* parse_header(data, offset): the local file header at offset.  A failed
\* read of the signature is InvalidEntry(offset); every later failed read
\* goes through `?` and is the IOError.  With bit 3 of the flags set the
\* crc32 and the two sizes are not read and stay 0.
parse_header(s, offset) ==
    IF offset + 4 > Len(s) THEN Err(ZipError("InvalidEntry", "", offset, 0), Max(offset, Len(s)))
    ELSE IF ReadU32(s, offset) # LFH_SIG
         THEN Err(ZipError("InvalidSignature", "", ReadU32(s, offset), 0), offset + 4)
    ELSE IF offset + 14 > Len(s) THEN Eof(s, offset + 4)
    ELSE LET flags == ReadU16(s, offset + 6)
             inline == ((flags \div 8) % 2 = 0)
             lens == IF inline THEN offset + 26 ELSE offset + 14
         IN  IF lens + 4 > Len(s) THEN Eof(s, offset + 14)
             ELSE LET fname_len == ReadU16(s, lens)
                      extra_len == ReadU16(s, lens + 2)
                      fname == Bytes(s, lens + 4, fname_len)
                      data_offset == lens + 4 + fname_len + extra_len
                  IN  IF lens + 4 + fname_len > Len(s) THEN Eof(s, lens + 4)
                      ELSE IF ~Utf8Valid(fname, 1)
                           THEN Err(ZipError("InvalidUtf8", "", 0, 0), lens + 4 + fname_len)
                      ELSE IF data_offset > Len(s) THEN Eof(s, lens + 4 + fname_len)
                      ELSE Ok([offset |-> (offset + 4) - 4,
                               version |-> ReadU16(s, offset + 4),
                               flags |-> flags,
                               compression |-> ReadU16(s, offset + 8),
                               last_mod_time |-> ReadU16(s, offset + 10),
                               last_mod_date |-> ReadU16(s, offset + 12),
                               crc32 |-> IF inline THEN ReadU32(s, offset + 14) ELSE 0,
                               compressed_size |-> IF inline THEN ReadU32(s, offset + 18) ELSE 0,
                               uncompressed_size |-> IF inline THEN ReadU32(s, offset + 22) ELSE 0,
                               filename |-> PathOf(fname),
                               extra_field |-> Bytes(s, lens + 4 + fname_len, extra_len),
                               data_offset |-> data_offset],
                              data_offset)

\* The EOCD record read at the offset the scan found (find_eocd after the
\* scan): the signature is read again, then the fixed fields and the
\* comment; failed reads are IOErrors.
read_eocd(s, offset) ==
    IF ReadU32(s, offset) # EOCD_SIG
    THEN Err(ZipError("EndOfCentralDirectoryNotFound", "", 0, 0), offset + 4)
    ELSE IF offset + 22 > Len(s) THEN Eof(s, offset + 4)
    ELSE LET comment_len == ReadU16(s, offset + 20)
         IN  IF offset + 22 + comment_len > Len(s) THEN Eof(s, offset + 22)
             ELSE Ok([disk_number |-> ReadU16(s, offset + 4),
                      disk_with_central_directory |-> ReadU16(s, offset + 6),
                      number_of_central_directory_records_on_this_disk |->
                          ReadU16(s, offset + 8),
                      total_number_of_central_directory_records |->
                          ReadU16(s, offset + 10),
                      size_of_central_directory |-> ReadU32(s, offset + 12),
                      offset_of_start_of_central_directory |->
                          ReadU32(s, offset + 16),
                      zip_file_comment |-> Bytes(s, offset + 22, comment_len)],
                     offset + 22 + comment_len)

\* A find_eocd that hands the scan's own error to its caller.
find_eocd_propagate(s, pos) ==
    LET f == find_next_signature(s, pos, EOCD_SIG, None)
    IN  IF ~f.ok THEN f ELSE read_eocd(s, f.val)

\* find_eocd(data): scan for the EOCD signature from the read position; any
\* failure of the scan is EndOfCentralDirectoryNotFound.  The record is then
\* read at the offset found.
find_eocd(s, pos) ==
    LET f == find_next_signature(s, pos, EOCD_SIG, None)
    IN  IF ~f.ok THEN Err(ZipError("EndOfCentralDirectoryNotFound", "", 0, 0), f.pos)
        ELSE read_eocd(s, f.val)

\* ----------------------------------------------------------- Index Builder
\* `e == ZipError::IOError(io::Error::from(ErrorKind::UnexpectedEof))`: the
\* scan reported the end of the stream.
IsEndOfStream(e) == e.kind = "IOError" /\ e.io = "UnexpectedEof"

\* An insert that keeps the entry a path already has.
insert_keep_first(index, path, info) ==
    [k \in DOMAIN index \cup {path} |-> IF k \in DOMAIN index THEN index[k] ELSE info]

\* ZipIndex::insert (BTreeMap::insert): the entry under `path` is replaced.
insert(index, path, info) ==
    [k \in DOMAIN index \cup {path} |-> IF k = path THEN info ELSE index[k]]

\* A loop of index_archive that ends with the index it has when a record
\* cannot be decoded.
RECURSIVE IndexLoop_lenient(_, _, _, _)
IndexLoop_lenient(s, pos, hint, index) ==
    LET f == find_next_signature(s, pos, CD_SIG, Some(hint))
    IN  IF ~f.ok
        THEN (IF IsEndOfStream(f.err) THEN Ok(index, f.pos) ELSE Err(f.err, f.pos))
        ELSE LET header == parse_central_dir(s, f.val)
             IN  IF ~header.ok THEN Ok(index, header.pos)
                 ELSE IndexLoop_lenient(s, header.pos, hint + header.val.len,
                                        insert(index, header.val.filename, header.val))

\* The loop of index_archive: scan for the next central-directory signature
\* from `hint`, decode the record found, add its length to `hint`, insert it.
RECURSIVE IndexLoop(_, _, _, _)
IndexLoop(s, pos, hint, index) ==
    LET f == find_next_signature(s, pos, CD_SIG, Some(hint))
    IN  IF ~f.ok
        THEN (IF IsEndOfStream(f.err) THEN Ok(index, f.pos) ELSE Err(f.err, f.pos))
        ELSE LET header == parse_central_dir(s, f.val)
             IN  IF ~header.ok THEN header
                 ELSE IndexLoop(s, header.pos, hint + header.val.len,
                                insert(index, header.val.filename, header.val))

\* index_archive(reader, hint): rewind, then the loop from hint.unwrap_or(0).
index_archive(s, hint) ==
    IndexLoop(s, 0, IF hint = None THEN 0 ELSE hint[1], << >>)

\* ZipReader::new(reader), the reader being at pos: find_eocd, then index_archive from the offset it declares.
ZipReader_new(s, pos) ==
    LET eocd == find_eocd(s, pos)
    IN  IF ~eocd.ok THEN eocd
        ELSE index_archive(s, Some(eocd.val.offset_of_start_of_central_directory))

\* ----------------------------------------------------- read.rs (recovery)
\* read.rs find_next_signature: the loop from read position p.  Two bytes
\* are read at a time and compared with the low half of the signature; on a
\* match the next two are compared with the high half.  A read_exact that
\* runs into the end returns the error, the position not restored.
RECURSIVE read_ScanLoop(_, _, _)
read_ScanLoop(s, p, signature) ==
    LET sig == U32(signature)
        lowers == { o \in p..(Len(s) - 2) :
                      (o - p) % 2 = 0 /\ s[o + 1] = sig[1] /\ s[o + 2] = sig[2] }
    IN  IF lowers = {} THEN Eof(s, p)
        ELSE CHOOSE r \in {
                 IF q + 4 > Len(s) THEN Eof(s, q + 2)
                 ELSE IF s[q + 3] = sig[3] /\ s[q + 4] = sig[4] THEN Ok((q + 4) - 4, q + 4)
                 ELSE read_ScanLoop(s, q + 4, signature)
               : q \in { o \in lowers : \A o2 \in lowers : o <= o2 } } : TRUE

\* read.rs find_next_signature(reader, signature, hint), the reader at pos.
read_find_next_signature(s, pos, signature, hint) ==
    LET start_pos == pos
        r == read_ScanLoop(s, IF hint = None THEN pos ELSE hint[1], signature)
    IN  IF r.ok THEN Ok(r.val, start_pos) ELSE r

\* read.rs parse_central_dir(data, offset): the filename is kept as the
\* bytes read (OsString); a directory has both sizes 0.
read_parse_central_dir(s, offset) ==
    IF offset + 4 > Len(s) THEN Eof(s, offset)
    ELSE IF ReadU32(s, offset) # CD_SIG
         THEN Err(ZipError("InvalidSignature", "", ReadU32(s, offset), 0), offset + 4)
    ELSE IF offset + 46 > Len(s) THEN Eof(s, offset + 4)
    ELSE LET fname_len == ReadU16(s, offset + 28)
             extra_len == ReadU16(s, offset + 30)
             comment_len == ReadU16(s, offset + 32)
             compressed_size == ReadU32(s, offset + 20)
             uncompressed_size == ReadU32(s, offset + 24)
             end == offset + 46 + fname_len + extra_len + comment_len
         IN  IF end > Len(s) THEN Eof(s, offset + 46)
             ELSE Ok([offset |-> offset,
                      version_made_by |-> ReadU16(s, offset + 4),
                      version_needed_to_extract |-> ReadU16(s, offset + 6),
                      flags |-> ReadU16(s, offset + 8),
                      compression |-> ReadU16(s, offset + 10),
                      last_mod_time |-> ReadU16(s, offset + 12),
                      last_mod_date |-> ReadU16(s, offset + 14),
                      crc32 |-> ReadU32(s, offset + 16),
                      compressed_size |-> compressed_size,
                      uncompressed_size |-> uncompressed_size,
                      filename |-> Bytes(s, offset + 46, fname_len),
                      extra_field |-> Bytes(s, offset + 46 + fname_len, extra_len),
                      file_comment |-> Bytes(s, offset + 46 + fname_len + extra_len, comment_len),
                      disk_number_start |-> ReadU16(s, offset + 34),
                      internal_file_attributes |-> ReadU16(s, offset + 36),
                      external_file_attributes |-> ReadU32(s, offset + 38),
                      relative_offset_of_local_header |-> ReadU32(s, offset + 42),
                      is_directory |-> (compressed_size = 0 /\ uncompressed_size = 0),
                      len |-> end - offset],
                     end)

\* !0 of a u32 (0xFFFFFFFF), written as its four bytes: the number lies
\* beyond the integers of the model checker.
NotZero32 == << 255, 255, 255, 255 >>

\* read.rs parse_header(data, offset): with bit 3 of the flags set the crc32
\* and the two sizes keep their initial value !0.
read_parse_header(s, offset) ==
    IF offset + 4 > Len(s) THEN Err(ZipError("InvalidEntry", "", offset, 0), Max(offset, Len(s)))
    ELSE IF ReadU32(s, offset) # LFH_SIG
         THEN Err(ZipError("InvalidSignature", "", ReadU32(s, offset), 0), offset + 4)
    ELSE IF offset + 14 > Len(s) THEN Eof(s, offset + 4)
    ELSE LET flags == ReadU16(s, offset + 6)
             inline == ((flags \div 8) % 2 = 0)
             lens == IF inline THEN offset + 26 ELSE offset + 14
         IN  IF lens + 4 > Len(s) THEN Eof(s, offset + 14)
             ELSE LET fname_len == ReadU16(s, lens)
                      extra_len == ReadU16(s, lens + 2)
                      data_offset == lens + 4 + fname_len + extra_len
                  IN  IF data_offset > Len(s) THEN Eof(s, lens + 4)
                      ELSE Ok([offset |-> (offset + 4) - 4,
                               version |-> ReadU16(s, offset + 4),
                               flags |-> flags,
                               compression |-> ReadU16(s, offset + 8),
                               last_mod_time |-> ReadU16(s, offset + 10),
                               last_mod_date |-> ReadU16(s, offset + 12),
                               crc32 |-> IF inline THEN ReadU32(s, offset + 14) ELSE NotZero32,
                               compressed_size |->
                                   IF inline THEN ReadU32(s, offset + 18) ELSE NotZero32,
                               uncompressed_size |->
                                   IF inline THEN ReadU32(s, offset + 22) ELSE NotZero32,
                               filename |-> Bytes(s, lens + 4, fname_len),
                               extra_field |-> Bytes(s, lens + 4 + fname_len, extra_len),
                               data_offset |-> data_offset],
                              data_offset)

\* read.rs index_archive: the loop, and the function (a seek to 0, then the
\* loop from hint.unwrap_or(0)).
RECURSIVE read_IndexLoop(_, _, _, _)
read_IndexLoop(s, pos, hint, index) ==
    LET f == read_find_next_signature(s, pos, CD_SIG, Some(hint))
    IN  IF ~f.ok
        THEN (IF IsEndOfStream(f.err) THEN Ok(index, f.pos) ELSE Err(f.err, f.pos))
        ELSE LET header == read_parse_central_dir(s, f.val)
             IN  IF ~header.ok THEN header
                 ELSE read_IndexLoop(s, header.pos, hint + header.val.len,
                                     insert(index, header.val.filename, header.val))

read_index_archive(s, hint) ==
    read_IndexLoop(s, 0, IF hint = None THEN 0 ELSE hint[1], << >>)

\* The second loop of intensive_index_archive: scan for the next local file
\* header signature from the read position, decode the header found.
RECURSIVE LocalHeaderLoop(_, _, _)
LocalHeaderLoop(s, pos, lh_index) ==
    LET f == read_find_next_signature(s, pos, LFH_SIG, None)
    IN  IF ~f.ok
        THEN (IF IsEndOfStream(f.err) THEN Ok(lh_index, f.pos) ELSE Err(f.err, f.pos))
        ELSE LET header == read_parse_header(s, f.val)
             IN  IF ~header.ok THEN header
                 ELSE LocalHeaderLoop(s, header.pos,
                                      insert(lh_index, header.val.filename, header.val))

\* ZipEntry::CentralDirectory(cd_header), ZipEntry::LocalFileHeader(lh_header).
ZipEntry_CentralDirectory(rec) == [tag |-> "CentralDirectory", rec |-> rec]
ZipEntry_LocalFileHeader(rec) == [tag |-> "LocalFileHeader", rec |-> rec]

\* The merge of intensive_index_archive: every entry of cd_index, then the
\* entries of lh_index under filenames the index does not hold yet.
merge(cd_index, lh_index) ==
    [k \in DOMAIN cd_index \cup DOMAIN lh_index |->
        IF k \in DOMAIN cd_index THEN ZipEntry_CentralDirectory(cd_index[k])
        ELSE ZipEntry_LocalFileHeader(lh_index[k])]

\* intensive_index_archive(reader): index_archive(reader, None)?, the loop
\* over the local file headers from where that left the reader, the merge.
intensive_index_archive(s) ==
    LET cd_index == read_index_archive(s, None)
    IN  IF ~cd_index.ok THEN cd_index
        ELSE LET lh_index == LocalHeaderLoop(s, cd_index.pos, << >>)
             IN  IF ~lh_index.ok THEN lh_index
                 ELSE Ok(merge(cd_index.val, lh_index.val), lh_index.pos)

\* ------------------------------------------- the indexers, step by step
\* A loop that scans from the same offset again after a record.
advance_none(hint, len) == hint

\* `hint += header.len`: where the next scan of index_archive starts.
advance(hint, len) == hint + len

\* One iteration of the loop of index_archive (reader.rs, or read.rs when
\* `old`), the reader at pos: [done, res] when the iteration returns, else
\* the hint, the index and the read position the iteration leaves, and what
\* it did: the scan start, the offset found, the length decoded.  (f, the
\* outcome of the scan, and header, the outcome of the decoder, are bound
\* once, each as the one element of a set.)
index_iteration(s, pos, hint, index, old) ==
    CHOOSE it \in {
        IF ~f.ok
        THEN [done |-> TRUE,
              res |-> IF IsEndOfStream(f.err) THEN Ok(index, f.pos) ELSE Err(f.err, f.pos)]
        ELSE CHOOSE it2 \in {
                 IF ~header.ok THEN [done |-> TRUE, res |-> header]
                 ELSE [done |-> FALSE,
                       hint |-> advance(hint, header.val.len),
                       index |-> insert(index, header.val.filename, header.val),
                       pos |-> header.pos,
                       step |-> [from |-> hint, offset |-> f.val, len |-> header.val.len]]
               : header \in { IF old THEN read_parse_central_dir(s, f.val)
                              ELSE parse_central_dir(s, f.val) } } : TRUE
      : f \in { IF old THEN read_find_next_signature(s, pos, CD_SIG, Some(hint))
                ELSE find_next_signature(s, pos, CD_SIG, Some(hint)) } } : TRUE

header_iteration(s, pos, lh_index) ==
    CHOOSE it \in {
        IF ~f.ok
        THEN [done |-> TRUE,
              res |-> IF IsEndOfStream(f.err) THEN Ok(lh_index, f.pos) ELSE Err(f.err, f.pos)]
        ELSE CHOOSE it2 \in {
                 IF ~header.ok THEN [done |-> TRUE, res |-> header]
                 ELSE [done |-> FALSE,
                       hint |-> header.pos,
                       index |-> insert(lh_index, header.val.filename, header.val),
                       pos |-> header.pos,
                       step |-> [from |-> pos, offset |-> f.val,
                                 len |-> header.val.data_offset - f.val]]
               : header \in { read_parse_header(s, f.val) } } : TRUE
      : f \in { read_find_next_signature(s, pos, LFH_SIG, None) } } : TRUE

\* -------------------------------------------------------------- filesystem
\* The destination filesystem: the set of directories and the content of
\* every file, each named by its components from the root.  Relative paths
\* start at Cwd.
Cwd == << << 119 >> >>
Parent(node) == IF node = << >> THEN node ELSE SubSeq(node, 1, Len(node) - 1)

\* Path resolution: every component is looked up in a directory that exists.
RECURSIVE WalkFrom(_, _, _, _)
WalkFrom(fsys, cur, comps, i) ==
    IF i > Len(comps) THEN [st |-> "ok", node |-> cur]
    ELSE IF cur \in DOMAIN fsys.files THEN [st |-> "NotADirectory", node |-> cur]
    ELSE IF cur \notin fsys.dirs THEN [st |-> "NotFound", node |-> cur]
    ELSE WalkFrom(fsys,
                  IF comps[i] = CurDir THEN cur
                  ELSE IF comps[i] = ParentDir THEN Parent(cur)
                  ELSE Append(cur, comps[i]),
                  comps, i + 1)

Walk(fsys, path) ==
    IF path = EmptyPath THEN [st |-> "NotFound", node |-> << >>]
    ELSE WalkFrom(fsys, IF path.abs THEN << >> ELSE Cwd, path.comps, 1)

\* Path::exists, Path::is_dir.
Exists(fsys, path) ==
    LET w == Walk(fsys, path)
    IN  w.st = "ok" /\ (w.node \in fsys.dirs \/ w.node \in DOMAIN fsys.files)
IsDir(fsys, path) ==
    LET w == Walk(fsys, path)
    IN  w.st = "ok" /\ w.node \in fsys.dirs

IoError(io) == [kind |-> "IOError", io |-> io, a |-> 0, b |-> 0, path |-> << >>]
FsOk(fsys) == [ok |-> TRUE, err |-> << >>, fs |-> fsys]
FsErr(e, fsys) == [ok |-> FALSE, err |-> e, fs |-> fsys]

\* File::create: the file is created, or truncated when it exists.
File_create(fsys, path) ==
    LET w == Walk(fsys, path)
    IN  IF w.st # "ok" THEN FsErr(IoError(w.st), fsys)
        ELSE IF w.node \in fsys.dirs THEN FsErr(IoError("IsADirectory"), fsys)
        ELSE FsOk([fsys EXCEPT !.files =
                     [n \in DOMAIN fsys.files \cup {w.node} |-> IF n = w.node THEN << >> ELSE fsys.files[n]]])

\* Write::write_all to the file File::create returned.
File_write(fsys, path, bytes) ==
    LET w == Walk(fsys, path)
    IN  [fsys EXCEPT !.files[w.node] = fsys.files[w.node] \o bytes]

\* mkdir(2).
mkdir(fsys, path) ==
    LET w == Walk(fsys, path)
    IN  IF w.st # "ok" THEN FsErr(IoError(w.st), fsys)
        ELSE IF w.node \in fsys.dirs \/ w.node \in DOMAIN fsys.files
             THEN FsErr(IoError("AlreadyExists"), fsys)
        ELSE FsOk([fsys EXCEPT !.dirs = fsys.dirs \cup {w.node}])

\* std::fs::create_dir_all: mkdir; when a parent is missing, the parent
\* (Path::parent) first and then mkdir again; a failed mkdir of a path that
\* is a directory is a success.
RECURSIVE create_dir_all(_, _)
create_dir_all(fsys, path) ==
    IF path = EmptyPath THEN FsOk(fsys)
    ELSE LET m == mkdir(fsys, path)
         IN  IF m.ok THEN m
             ELSE IF m.err.io # "NotFound"
                  THEN (IF IsDir(fsys, path) THEN FsOk(fsys) ELSE m)
             ELSE IF path.comps = << >> THEN m
             ELSE LET up == create_dir_all(fsys, [path EXCEPT !.comps = Parent(path.comps)])
                  IN  IF ~up.ok THEN up
                      ELSE LET m2 == mkdir(up.fs, path)
                           IN  IF m2.ok THEN m2
                               ELSE IF IsDir(up.fs, path) THEN FsOk(up.fs)
                               ELSE m2

\* ------------------------------------------------------------------ codecs
Codecs == { "NoCompressionCodec", "GzipCodec" }

\* CompressionCodec::int_id.
int_id(codec) == IF codec = "NoCompressionCodec" THEN 0 ELSE 14

\* CompressionCodec::streamed_expansion(reader, writer), the reader being at
\* pos: NoCompressionCodec copies every byte from the read position to the
\* end of the source (std::io::copy); GzipCodec is todo!() and panics.
streamed_expansion(codec, s, pos) ==
    IF codec = "NoCompressionCodec"
    THEN [panic |-> FALSE, out |-> Bytes(s, pos, Len(s) - pos), pos |-> Max(pos, Len(s))]
    ELSE [panic |-> TRUE, out |-> << >>, pos |-> pos]

\* CompressionCodec::expand(data).
expand(codec, data, pos) ==
    IF codec = "NoCompressionCodec" THEN Ok(data, pos)
    ELSE Err(ZipError("Panic", "", 0, 0), pos)

\* zstd::compression_level_range(): the levels the zstd library takes.
ZstdMinLevel == -131072
ZstdMaxLevel == 22
compression_level_range == ZstdMinLevel..ZstdMaxLevel

\* ZstdCodec::new(level).
ZstdCodec_new(level) ==
    IF level \notin compression_level_range
    THEN Err(ZipError("InvalidCompressionLevel", "", level, 0), 0)
    ELSE Ok([codec |-> "ZstdCodec", level |-> level], 0)

\* GzipCodec::new(level): it returns Self, whatever the level.
GzipCodec_new(level) == Ok([codec |-> "GzipCodec", level |-> level], 0)

\* ----------------------------------------------------- Extraction pipeline
\* A dump_file that returns what the source still holds when the payload
\* range runs past its end.
dump_file_padded(s, cd) ==
    LET header == parse_header(s, cd.local_header_rel_offset)
    IN  IF ~header.ok THEN header
        ELSE LET from == header.val.data_offset
                 upto == IF from + cd.compressed_size > Len(s) THEN Len(s)
                         ELSE from + cd.compressed_size
             IN  Ok(SubSeq(s, from + 1, upto), Max(from, upto))

\* dump_file(data, cd): seek to the local header, parse it, seek to its
\* data_offset and read_exact compressed_size bytes.
dump_file(s, cd) ==
    LET header == parse_header(s, cd.local_header_rel_offset)
    IN  IF ~header.ok THEN header
        ELSE IF header.val.data_offset + cd.compressed_size > Len(s)
             THEN Eof(s, header.val.data_offset)
        ELSE Ok(Bytes(s, header.val.data_offset, cd.compressed_size),
                header.val.data_offset + cd.compressed_size)

\* The tail of extract_file: File::create(dest_path), then the codec check,
\* then streamed_expansion from the reader, at pos, into the file.
write_entry(s, pos, fsys, cd, dest_path, codec) ==
    LET out(ok, e, f, p) == [ok |-> ok, err |-> e, fs |-> f, pos |-> p]
        file == File_create(fsys, dest_path)
    IN  IF ~file.ok THEN out(FALSE, file.err, file.fs, pos)
        ELSE IF int_id(codec) # cd.compression
             THEN out(FALSE,
                      ZipError("MismatchedCompressionMethod", "",
                               cd.compression, int_id(codec)),
                      file.fs, pos)
        ELSE LET x == streamed_expansion(codec, s, pos)
             IN  IF x.panic
                 THEN out(FALSE, ZipError("Panic", "", 0, 0), file.fs, x.pos)
                 ELSE out(TRUE, << >>, File_write(file.fs, dest_path, x.out), x.pos)

\* An extract_file without the check that dest_path exists.
extract_file_overwrite(s, pos, fsys, cd, where_to, codec) ==
    IF ~Exists(fsys, where_to)
    THEN [ok |-> FALSE, err |-> IoError("NotFound"), fs |-> fsys, pos |-> pos]
    ELSE write_entry(s, pos, fsys, cd, Join(where_to, cd.filename), codec)

\* extract_file(reader, cd, where_to, codec), the reader being at pos.  The
\* result carries the filesystem and the read position the call leaves.
extract_file(s, pos, fsys, cd, where_to, codec) ==
    LET dest_path == Join(where_to, cd.filename)
    IN  IF ~Exists(fsys, where_to)
        THEN [ok |-> FALSE, err |-> IoError("NotFound"), fs |-> fsys, pos |-> pos]
        ELSE IF Exists(fsys, dest_path)
             THEN [ok |-> FALSE, err |-> IoError("AlreadyExists"), fs |-> fsys, pos |-> pos]
        ELSE write_entry(s, pos, fsys, cd, dest_path, codec)

\* Path order of the index (Ord for Path): component by component, the root
\* before ".", "." before "..", ".." before a name, names by their bytes.
RECURSIVE BytesLess(_, _, _)
BytesLess(a, b, i) ==
    IF i > Len(a) THEN i <= Len(b)
    ELSE IF i > Len(b) THEN FALSE
    ELSE IF a[i] < b[i] THEN TRUE
    ELSE IF b[i] < a[i] THEN FALSE
    ELSE BytesLess(a, b, i + 1)
Rank(c) == IF c = << >> THEN 1 ELSE IF c = CurDir THEN 2 ELSE IF c = ParentDir THEN 3 ELSE 4
ComponentLess(c, d) ==
    Rank(c) < Rank(d) \/ (Rank(c) = 4 /\ Rank(d) = 4 /\ BytesLess(c, d, 1))
RECURSIVE ComponentsLess(_, _, _)
ComponentsLess(a, b, i) ==
    IF i > Len(a) THEN i <= Len(b)
    ELSE IF i > Len(b) THEN FALSE
    ELSE IF ComponentLess(a[i], b[i]) THEN TRUE
    ELSE IF ComponentLess(b[i], a[i]) THEN FALSE
    ELSE ComponentsLess(a, b, i + 1)
PathLess(p, q) ==
    ComponentsLess(IF p.abs THEN << << >> >> \o p.comps ELSE p.comps,
                   IF q.abs THEN << << >> >> \o q.comps ELSE q.comps, 1)

\* The keys of a BTreeMap in iteration order.
RECURSIVE Ordered(_)
Ordered(keys) ==
    IF keys = {} THEN << >>
    ELSE LET first == CHOOSE k \in keys : \A k2 \in keys \ {k} : PathLess(k, k2)
         IN  << first >> \o Ordered(keys \ {first})

\* ZipIndex::files and ZipIndex::dirs: the entries in index order.
files(idx) ==
    LET keys == Ordered({ k \in DOMAIN idx : ~idx[k].is_directory })
    IN  [i \in 1..Len(keys) |-> idx[keys[i]]]
dirs(idx) ==
    LET keys == Ordered({ k \in DOMAIN idx : idx[k].is_directory })
    IN  [i \in 1..Len(keys) |-> idx[keys[i]]]

\* ZipReader::build_directories(base): create_dir_all of base joined with the
\* filename of every directory entry, stopping at the first failure.
RECURSIVE BuildLoop(_, _, _, _)
BuildLoop(fsys, ds, i, base) ==
    IF i > Len(ds) THEN FsOk(fsys)
    ELSE LET made_dir == create_dir_all(fsys, Join(base, ds[i].filename))
         IN  IF ~made_dir.ok THEN made_dir
             ELSE BuildLoop(made_dir.fs, ds, i + 1, base)
\* A build_directories that creates nothing.
build_directories_none(fsys, idx, base) == FsOk(fsys)
build_directories(fsys, idx, base) == BuildLoop(fsys, dirs(idx), 1, base)

\* ZipReader::extract_data_from_cd(cd, codec).
extract_data_from_cd(s, pos, cd, codec) ==
    IF cd.compression # int_id(codec)
    THEN Err(ZipError("MismatchedCompressionMethod", "", cd.compression, int_id(codec)), pos)
    ELSE LET data == dump_file(s, cd)
         IN  IF ~data.ok THEN data ELSE expand(codec, data.val, data.pos)

\* ZipIndex::iter: the (path, entry) pairs in the order of the paths.
iter(idx) ==
    LET keys == Ordered(DOMAIN idx)
    IN  [i \in 1..Len(keys) |-> [path |-> keys[i], info |-> idx[keys[i]]]]

\* A ZipIndex::get that answers a path the index does not hold with its
\* first entry.
get_or_first(idx, path) ==
    IF path \in DOMAIN idx THEN Some(idx[path])
    ELSE IF DOMAIN idx = {} THEN None
    ELSE Some(iter(idx)[1].info)

\* ZipIndex::get (BTreeMap::get).
get(idx, path) == IF path \in DOMAIN idx THEN Some(idx[path]) ELSE None

\* ZipError::EntryNotFound(path).
EntryNotFound(path) == [ZipError("EntryNotFound", "", 0, 0) EXCEPT !.path = path]

\* ZipEntryInfo::from_central_dir(entry).
from_central_dir(entry) ==
    [name |-> entry.filename,
     is_dir |-> (entry.external_file_attributes \div 16) % 2 = 1,
     is_file |-> (entry.external_file_attributes \div 32) % 2 = 1,
     is_symlink |-> (entry.external_file_attributes \div 1073741824) % 2 = 1,
     is_compressed |-> entry.compression # 0,
     size |-> entry.uncompressed_size,
     compressed_size |-> entry.compressed_size,
     crc32 |-> entry.crc32,
     compression_method |-> entry.compression,
     last_modified |-> entry.last_mod_date,
     last_accessed |-> entry.last_mod_date,
     offset |-> entry.local_header_rel_offset]

\* ZipReader::dump_file(filename), the reader being at pos.
ZipReader_dump_file(s, pos, idx, filename) ==
    LET entry == get(idx, filename)
    IN  IF entry = None THEN Err(EntryNotFound(filename), pos)
        ELSE dump_file(s, entry[1])

\* ZipReader::file_info(filename).
file_info(pos, idx, filename) ==
    LET entry == get(idx, filename)
    IN  IF entry = None THEN Err(EntryNotFound(filename), pos)
        ELSE Ok(from_central_dir(entry[1]), pos)

\* ZipReader::extract_file(filename, codec), the reader being at pos.
ZipReader_extract_file(s, pos, idx, filename, codec) ==
    LET entry == get(idx, filename)
    IN  IF entry = None THEN Err(EntryNotFound(filename), pos)
        ELSE extract_data_from_cd(s, pos, entry[1], codec)

\* ------------------------------------------------------------ C interface
\* A pointer handed across the boundary is the number of the box it points
\* to; Null is the null pointer.  A box is the IZipReader with the state of
\* its memory: "live" after Box::leak, "released" after the Box was dropped;
\* `releases` counts the drops and `stale` tells that the memory was used
\* after its release.
Null == 0
Panic == ZipError("Panic", "", 0, 0)

\* The IZipReader zip_open_buffer boxes for the outcome r of ZipReader::new.
IZipReader(r) ==
    [reader |-> IF r.ok THEN Some([index |-> r.val, pos |-> r.pos]) ELSE None,
     error |-> IF r.ok THEN None ELSE Some(r.err)]

\* zip_open_buffer(buf, buf_len): the heap with the new box; the pointer
\* returned is the number of that box.
zip_open_buffer(heap, buf) ==
    Append(heap, [state |-> "live", box |-> IZipReader(ZipReader_new(buf, 0)),
                  releases |-> 0, stale |-> FALSE])

\* zip_find_file(reader, filename, filename_len) on the box the pointer
\* names (read as it was when live): a null pointer gives null, a filename
\* that is not UTF-8 or not in the index panics in unwrap().
zip_find_file(box, reader, filename) ==
    IF reader = Null THEN Ok("null", 0)
    ELSE IF filename = None THEN Ok("null", 0)
    ELSE IF ~Utf8Valid(filename[1], 1) THEN Err(Panic, 0)
    ELSE IF box.reader # None
         THEN LET finfo == file_info(box.reader[1].pos, box.reader[1].index, PathOf(filename[1]))
              IN  IF finfo.ok THEN Ok(Some(finfo.val), 0) ELSE Err(Panic, 0)
    ELSE Ok("null", 0)

\* zip_close(reader): a null pointer returns; any other pointer is made a
\* Box again (Box::from_raw) and dropped, whatever the state of its memory.
zip_close(heap, reader) ==
    IF reader = Null THEN heap
    ELSE [heap EXCEPT ![reader].state = "released",
                      ![reader].releases = @ + 1,
                      ![reader].stale = @ \/ heap[reader].state = "released"]

\* zip_get_error(reader): null for a null pointer or a box without error,
\* else the pointer to the error in the box.
zip_get_error(box, reader) ==
    IF reader = Null THEN Ok("null", 0)
    ELSE IF box.error # None THEN Ok(box.error, 0)
    ELSE Ok("null", 0)

\* ---------------------------------------------------------------- sources
\* The byte layout of the three records, as the decoders read it.
\* m: [name, method, flags, payload, usize]; name and payload are bytes.
LocalHeaderBytes(m) ==
    U32(LFH_SIG) \o U16(20) \o U16(m.flags) \o U16(m.method) \o U16(0) \o U16(0)
    \o U32(0) \o U32(Len(m.payload)) \o U32(m.usize)
    \o U16(Len(m.name)) \o U16(0) \o m.name

\* The central-directory record of member m whose local header is at lho and
\* whose declared compressed size is csize.
CentralDirBytes(m, lho, csize) ==
    U32(CD_SIG) \o U16(20) \o U16(20) \o U16(m.flags) \o U16(m.method) \o U16(0) \o U16(0)
    \o U32(0) \o U32(csize) \o U32(m.usize)
    \o U16(Len(m.name)) \o U16(0) \o U16(0) \o U16(0) \o U16(0) \o U32(0) \o U32(lho)
    \o m.name

EocdBytes(n, cdsize, cdoffset, comment) ==
    U32(EOCD_SIG) \o U16(0) \o U16(0) \o U16(n) \o U16(n) \o U32(cdsize) \o U32(cdoffset)
    \o U16(Len(comment)) \o comment

\* Local headers and payloads of members ms[1..k], one after the other.
RECURSIVE LocalPart(_, _)
LocalPart(ms, k) ==
    IF k = 0 THEN << >>
    ELSE LocalPart(ms, k - 1) \o LocalHeaderBytes(ms[k]) \o ms[k].payload

\* Central-directory records of members ms[1..k].  `damage` makes a record
\* lie or unreadable: "lie_size" (archives of one member) declares a
\* compressed size that ends beyond the source, "lie_offset" (archives of one
\* member) a local-header offset that is off by one, "bad_utf8" puts the byte
\* 0xFF in front of the filename of the last record.
RECURSIVE CentralPart(_, _, _)
CentralPart(ms, k, damage) ==
    IF k = 0 THEN << >>
    ELSE LET lho == Len(LocalPart(ms, k - 1))
             csize == Len(ms[k].payload)
             m == IF k = Len(ms) /\ damage = "bad_utf8"
                  THEN [ms[k] EXCEPT !.name = << 255 >> \o Tail(ms[k].name)]
                  ELSE ms[k]
         IN  CentralPart(ms, k - 1, damage) \o
             CentralDirBytes(m,
                             IF k = 1 /\ damage = "lie_offset" THEN lho + 1 ELSE lho,
                             IF k = 1 /\ damage = "lie_size" THEN csize + 200 ELSE csize)

\* The archive with members ms; "no_cd" is the local headers and payloads
\* alone, "no_eocd" leaves the EOCD record out, "cut_cd"
\* leaves it out and ends the source three bytes before the end of the last
\* central-directory record.
ArchiveBytes(ms, damage) ==
    LET local == LocalPart(ms, Len(ms))
        central == CentralPart(ms, Len(ms), damage)
    IN  IF damage = "no_cd" THEN local
        ELSE IF damage = "no_eocd" THEN local \o central
        ELSE IF damage = "cut_cd" THEN local \o SubSeq(central, 1, Len(central) - 3)
        ELSE local \o central \o EocdBytes(Len(ms), Len(central), Len(local), << >>)

\* Members the generated archives are made of, in the order archives store
\* them: a stored file, a stored file whose name ends in the byte 0x50, a
\* file inside a directory, that directory, a file of method 14, a stored
\* file with a data descriptor (flag bit 3), a second member named like the
\* first one.  The order of the index (by path) is another one:
\* "P" < "d/" < "d/f" < "h" < "s" < "z".
Members ==
    << [name |-> << 104 >>, method |-> 0, flags |-> 0, payload |-> << 67 >>, usize |-> 1],
       [name |-> << 80 >>, method |-> 0, flags |-> 0, payload |-> << 65, 66 >>, usize |-> 2],
       [name |-> << 100, 47, 102 >>, method |-> 0, flags |-> 0, payload |-> << 68 >>, usize |-> 1],
       [name |-> << 100, 47 >>, method |-> 0, flags |-> 0, payload |-> << >>, usize |-> 0],
       [name |-> << 122 >>, method |-> 14, flags |-> 0, payload |-> << 75, 76, 77 >>, usize |-> 5],
       [name |-> << 115 >>, method |-> 0, flags |-> 8, payload |-> << 69 >>, usize |-> 1],
       [name |-> << 104 >>, method |-> 0, flags |-> 0, payload |-> << 72, 73 >>, usize |-> 2] >>

\* Member lists of at most MaxMembers members, in the order of Members.
MemberLists ==
    { [i \in 1..Len(pick) |-> Members[pick[i]]] :
        pick \in UNION { { p \in [1..n -> 1..Len(Members)] : \A i \in 1..(n - 1) : p[i] < p[i + 1] }
                         : n \in 0..MaxMembers } }

Damages == { "none", "no_eocd", "no_cd", "lie_size", "lie_offset", "cut_cd", "bad_utf8" }

\* Raw sources: at most MaxRaw bytes taken from the first two signature
\* bytes and 0, followed by the first k bytes of the EOCD signature.
RawBytes == { 80, 75, 0 }
RawSources ==
    { pre \o SubSeq(U32(EOCD_SIG), 1, k) :
        pre \in UNION { [1..n -> RawBytes] : n \in 0..MaxRaw }, k \in 0..4 }

\* ------------------------------------------------------------------- state
VARIABLES
    source,   \* the bytes of the underlying stream
    made,     \* how the source was made: [kind, members, damage]
    pos,      \* the read position of the reader over the source
    reader,   \* "none" before ZipReader::new, then "open" or "failed"
    index,    \* ZipReader.index: path -> CentralDirectory
    fs,       \* the filesystem extraction writes to: [dirs, files]
    xall,     \* the extract_all_files call in progress
    last,     \* the call that returned last: [op, arg, before, res]
    handles,  \* the IZipReader boxes handed across the C boundary, by handle
    run,      \* the index_archive loop in progress, iteration by iteration
    workers   \* the dump_file calls of the workers, step by step

vars == << source, made, pos, reader, index, fs, xall, last, handles, run, workers >>

\* Destinations a caller names: "o" exists, "n" does not.
OutDir == PathOf(<< 111 >>)
NewDir == PathOf(<< 110 >>)
Dests == { OutDir, NewDir }
\* A path no generated archive holds.
MissingPath == PathOf(<< 120 >>)

\* The filesystem before any extraction: the working directory, the
\* destination "o" and in it a file "z" of one byte.
InitFs ==
    [dirs |-> { << >>, Cwd, Cwd \o OutDir.comps },
     files |-> [n \in { Cwd \o OutDir.comps \o << << 122 >> >> } |-> << 7 >>]]

Result(r) == [ok |-> r.ok, val |-> IF r.ok /\ "val" \in DOMAIN r THEN r.val ELSE << >>, err |-> r.err]
Call(op, arg, before, r) == [op |-> op, arg |-> arg, before |-> before, res |-> Result(r)]
\* The boxes a C caller may hold, and the calls of zip_close it may make on
\* one pointer.
MaxHandles == 1
MaxCloses == 2
\* No index_archive loop in progress.
MaxSteps == 8
RunIdle == [pc |-> "idle", variant |-> "none", arg |-> None, hint |-> 0, index |-> << >>,
            lh_index |-> << >>, steps |-> << >>, res |-> Result(Ok(<< >>, 0))]
\* The workers, and a worker that has not called dump_file.
MaxWorkers == 2
Workers == 1..MaxWorkers
WorkerIdle == [pc |-> "idle", path |-> EmptyPath, cursor |-> 0, header |-> << >>,
               res |-> Result(Ok(<< >>, 0))]
Idle == [pc |-> "idle", dir |-> EmptyPath, codec |-> "NoCompressionCodec", rest |-> << >>,
         where_existed |-> FALSE, err |-> << >>]

Init ==
    /\ \/ \E ms \in MemberLists, d \in Damages :
             /\ (d \in {"lie_size", "lie_offset"} => Len(ms) = 1)
             /\ (d \in {"no_cd", "cut_cd", "bad_utf8"} => Len(ms) >= 1)
             /\ source = ArchiveBytes(ms, d)
             /\ made = [kind |-> "archive", members |-> ms, damage |-> d]
       \/ \E raw \in RawSources :
             /\ source = raw
             /\ made = [kind |-> "raw", members |-> << >>, damage |-> "none"]
    /\ pos = 0
    /\ reader = "none"
    /\ index = << >>
    /\ fs = InitFs
    /\ xall = Idle
    /\ last = Call("none", << >>, 0, Ok(<< >>, 0))
    /\ handles = << >>
    /\ run = RunIdle
    /\ workers = [w \in Workers |-> WorkerIdle]

\* A stream for the local-header decoder alone: some bytes, then the local
\* file header and payload of one member, whole or ending early.
MaxPad == 1
InitHeader ==
    /\ \E i \in 1..Len(Members), n \in 0..MaxPad :
          LET whole == LocalHeaderBytes(Members[i]) \o Members[i].payload
          IN  \E k \in 0..Len(whole) :
                 /\ source = [j \in 1..n |-> 0] \o SubSeq(whole, 1, k)
                 /\ made = [kind |-> "header", members |-> << Members[i] >>,
                            damage |-> IF k = Len(whole) THEN "none" ELSE "cut"]
    /\ pos = 0
    /\ reader = "none"
    /\ index = << >>
    /\ fs = InitFs
    /\ xall = Idle
    /\ last = Call("none", << >>, 0, Ok(<< >>, 0))
    /\ handles = << >>
    /\ run = RunIdle
    /\ workers = [w \in Workers |-> WorkerIdle]

\* Archives whose filenames leave the destination: an absolute filename
\* "/e", a filename "../e" through the parent, a directory "../k/", next to
\* the plain file "h".
EscapeMembers ==
    << [name |-> << 47, 101 >>, method |-> 0, flags |-> 0, payload |-> << 70 >>, usize |-> 1],
       [name |-> << 46, 46, 47, 101 >>, method |-> 0, flags |-> 0, payload |-> << 71 >>, usize |-> 1],
       [name |-> << 46, 46, 47, 107, 47 >>, method |-> 0, flags |-> 0, payload |-> << >>, usize |-> 0],
       Members[1] >>

InitEscape ==
    /\ \E a \in 1..Len(EscapeMembers), b \in 0..Len(EscapeMembers) :
          /\ a # b
          /\ LET ms == IF b = 0 THEN << EscapeMembers[a] >>
                       ELSE << EscapeMembers[a], EscapeMembers[b] >>
             IN  /\ source = ArchiveBytes(ms, "none")
                 /\ made = [kind |-> "archive", members |-> ms, damage |-> "none"]
    /\ pos = 0
    /\ reader = "none"
    /\ index = << >>
    /\ fs = InitFs
    /\ xall = Idle
    /\ last = Call("none", << >>, 0, Ok(<< >>, 0))
    /\ handles = << >>
    /\ run = RunIdle
    /\ workers = [w \in Workers |-> WorkerIdle]

\* Archives for the indexers run step by step: the members "h" and "P" and
\* a member whose filename is the four bytes of the central-directory
\* signature, whole, without EOCD record, or cut inside the last record.
RunMembers ==
    << Members[1], Members[2],
       [name |-> U32(CD_SIG), method |-> 0, flags |-> 0, payload |-> << 74 >>, usize |-> 1] >>

InitRun ==
    /\ \E a \in 1..Len(RunMembers), b \in 0..Len(RunMembers), d \in { "none", "no_eocd", "cut_cd" } :
          /\ a # b
          /\ LET ms == IF b = 0 THEN << RunMembers[a] >>
                       ELSE << RunMembers[a], RunMembers[b] >>
             IN  /\ source = ArchiveBytes(ms, d)
                 /\ made = [kind |-> "archive", members |-> ms, damage |-> d]
    /\ pos = 0
    /\ reader = "none"
    /\ index = << >>
    /\ fs = InitFs
    /\ xall = Idle
    /\ last = Call("none", << >>, 0, Ok(<< >>, 0))
    /\ handles = << >>
    /\ run = RunIdle
    /\ workers = [w \in Workers |-> WorkerIdle]

\* ----------------------------------------------------------------- actions
\* The signatures reader.rs scans for (find_eocd, index_archive).
Signatures == { EOCD_SIG, CD_SIG }
\* Hints a caller passes to the scanner: none, or an offset into the source.
Hints == { None } \cup { Some(h) : h \in 0..MaxHint }

\* find_next_signature applied to the source before the archive is opened.
Scan(signature, hint) ==
    /\ reader = "none"
    /\ LET r == find_next_signature(source, pos, signature, hint)
       IN  /\ pos' = r.pos
           /\ last' = Call("find_next_signature", [signature |-> signature, hint |-> hint], pos, r)
    /\ UNCHANGED << source, made, reader, index, fs, xall, handles, run, workers >>

\* index_archive(reader, hint) applied to the source before the archive is
\* opened.
IndexArchive(hint) ==
    /\ reader = "none"
    /\ LET r == index_archive(source, hint)
       IN  /\ pos' = r.pos
           /\ last' = Call("index_archive", [hint |-> hint], pos, r)
    /\ UNCHANGED << source, made, reader, index, fs, xall, handles, run, workers >>

\* read.rs index_archive(reader, hint) applied to the source.
ReadIndexArchive(hint) ==
    /\ reader = "none"
    /\ LET r == read_index_archive(source, hint)
       IN  /\ pos' = r.pos
           /\ last' = Call("read_index_archive", [hint |-> hint], pos, r)
    /\ UNCHANGED << source, made, reader, index, fs, xall, handles, run, workers >>

\* intensive_index_archive(reader) applied to the source.
IntensiveIndexArchive ==
    /\ reader = "none"
    /\ LET r == intensive_index_archive(source)
       IN  /\ pos' = r.pos
           /\ last' = Call("intensive_index_archive", << >>, pos, r)
    /\ UNCHANGED << source, made, reader, index, fs, xall, handles, run, workers >>

\* Levels a caller constructs a codec with: the ends of the ranges of the
\* two codecs and their neighbours.
Levels == { ZstdMinLevel - 1, ZstdMinLevel, -1, 0, 9, 10, ZstdMaxLevel, ZstdMaxLevel + 1 }

\* ZstdCodec::new(level) or GzipCodec::new(level).
NewCodec(codec, level) ==
    /\ reader = "none"
    /\ last' = Call(codec, [level |-> level], pos,
                    IF codec = "ZstdCodec_new" THEN ZstdCodec_new(level) ELSE GzipCodec_new(level))
    /\ UNCHANGED << source, made, pos, reader, index, fs, xall, handles, run, workers >>

\* parse_header(data, offset) applied to the source.
ParseHeader(offset) ==
    /\ reader = "none"
    /\ LET r == parse_header(source, offset)
       IN  /\ pos' = r.pos
           /\ last' = Call("parse_header", [offset |-> offset], pos, r)
    /\ UNCHANGED << source, made, reader, index, fs, xall, handles, run, workers >>

\* What a call that uses released memory can do: go on with what the
\* memory held, or fault.
Outcomes(heap, h) ==
    IF h # Null /\ heap[h].state = "released" THEN { "as_before", "fault" }
    ELSE { "as_before" }
Fault == Err(ZipError("Fault", "", 0, 0), 0)

\* Filenames a C caller asks for: those of the archive, an absent one, bytes
\* that are not UTF-8, and the null pointer.
FfiNames ==
    { Some(made.members[i].name) : i \in 1..Len(made.members) }
    \cup { Some(<< 120 >>), Some(<< 255 >>), None }

\* zip_open_buffer(buf, buf_len), the buffer being the source.
ZipOpenBuffer ==
    /\ reader = "none"
    /\ Len(handles) < MaxHandles
    /\ handles' = zip_open_buffer(handles, source)
    /\ last' = Call("zip_open_buffer", << >>, pos, Ok(Len(handles) + 1, pos))
    /\ UNCHANGED << source, made, pos, reader, index, fs, xall, run, workers >>

\* zip_find_file(reader, filename, filename_len).
ZipFindFile(h, filename) ==
    /\ reader = "none"
    /\ \E outcome \in Outcomes(handles, h) :
          last' = Call("zip_find_file", [reader |-> h, filename |-> filename], pos,
                       IF outcome = "fault" THEN Fault
                       ELSE zip_find_file(IF h = Null THEN << >> ELSE handles[h].box, h, filename))
    /\ handles' = IF h # Null /\ handles[h].state = "released"
                  THEN [handles EXCEPT ![h].stale = TRUE] ELSE handles
    /\ UNCHANGED << source, made, pos, reader, index, fs, xall, run, workers >>

\* zip_close(reader).
ZipClose(h) ==
    /\ reader = "none"
    /\ h # Null => handles[h].releases < MaxCloses
    /\ handles' = zip_close(handles, h)
    /\ \E outcome \in Outcomes(handles, h) :
          last' = Call("zip_close", [reader |-> h], pos,
                       IF outcome = "fault" THEN Fault ELSE Ok(<< >>, 0))
    /\ UNCHANGED << source, made, pos, reader, index, fs, xall, run, workers >>

\* zip_get_error(reader).
ZipGetError(h) ==
    /\ reader = "none"
    /\ \E outcome \in Outcomes(handles, h) :
          last' = Call("zip_get_error", [reader |-> h], pos,
                       IF outcome = "fault" THEN Fault
                       ELSE zip_get_error(IF h = Null THEN << >> ELSE handles[h].box, h))
    /\ handles' = IF h # Null /\ handles[h].state = "released"
                  THEN [handles EXCEPT ![h].stale = TRUE] ELSE handles
    /\ UNCHANGED << source, made, pos, reader, index, fs, xall, run, workers >>

\* Hints for the indexers run step by step: those of Hints and the offset
\* of the first central-directory record.
RunHints == Hints \cup { Some(Len(LocalPart(made.members, Len(made.members)))) }
RunVariants == { "index_archive", "read_index_archive", "intensive_index_archive" }

\* The call of an indexer, up to its loop: hint.unwrap_or(0), the rewind.
RunStart(variant, hint) ==
    /\ reader = "none"
    /\ run.pc = "idle"
    /\ variant = "intensive_index_archive" => hint = None
    /\ run' = [RunIdle EXCEPT !.pc = "cd", !.variant = variant, !.arg = hint,
                              !.hint = IF hint = None THEN 0 ELSE hint[1]]
    /\ pos' = 0
    /\ UNCHANGED << source, made, reader, index, fs, xall, last, handles, workers >>

\* The return of the indexer with result r.
RunReturn(r) ==
    /\ run' = [run EXCEPT !.pc = "done", !.res = Result(r)]
    /\ pos' = r.pos
    /\ last' = Call(run.variant, [hint |-> run.arg], 0, r)

\* One iteration of the loop the indexer is in: the central-directory loop
\* of index_archive, or the local-header loop of intensive_index_archive,
\* which starts when its call of index_archive has returned Ok.
RunStep ==
    /\ run.pc \in { "cd", "lh" }
    /\ Len(run.steps) < MaxSteps
    /\ \E it \in { IF run.pc = "cd"
                     THEN index_iteration(source, pos, run.hint, run.index,
                                          run.variant # "index_archive")
                     ELSE header_iteration(source, pos, run.lh_index) } :
           IF ~it.done
           THEN /\ run' = IF run.pc = "cd"
                          THEN [run EXCEPT !.hint = it.hint, !.index = it.index,
                                           !.steps = Append(@, it.step)]
                          ELSE [run EXCEPT !.lh_index = it.index,
                                           !.steps = Append(@, it.step)]
                /\ pos' = it.pos
                /\ last' = last
           ELSE IF run.variant # "intensive_index_archive" \/ ~it.res.ok
                THEN RunReturn(it.res)
           ELSE IF run.pc = "cd"
                THEN /\ run' = [run EXCEPT !.pc = "lh", !.steps = << >>]
                     /\ pos' = it.res.pos
                     /\ last' = last
           ELSE RunReturn(Ok(merge(run.index, it.res.val), it.res.pos))
    /\ UNCHANGED << source, made, reader, index, fs, xall, handles, workers >>

\* One cursor for all workers.
view_shared(w) == 1

\* The seekable view worker w reads through: dump_file takes its reader by
\* `&mut`, so every call in progress has a reader of its own.
view(w) == w

\* The cursor of worker w's view, and the workers after w's view was moved.
Cursor(w) == workers[view(w)].cursor
Moved(ws, w, to) == [ws EXCEPT ![view(w)].cursor = to]

\* Worker w calls dump_file(data, cd) for the entry at path: the buffer of
\* compressed_size bytes is made.
WorkerStart(w, path) ==
    /\ reader = "open"
    /\ workers[w].pc = "idle"
    /\ workers' = [workers EXCEPT ![w].pc = "seek", ![w].path = path]
    /\ UNCHANGED << source, made, pos, reader, index, fs, xall, last, handles, run >>

\* The next step of worker w's dump_file: the seek to the local header, the
\* seek of parse_header, the reads of parse_header, the seek to the data
\* offset, read_exact.  Every read is at the cursor of the worker's view.
WorkerStep(w) ==
    /\ workers[w].pc \in { "seek", "rewind", "header", "seek_data", "read" }
    /\ LET cd == index[workers[w].path]
           me == workers[w]
       IN  workers' =
             IF me.pc = "seek"
             THEN Moved([workers EXCEPT ![w].pc = "rewind"], w, cd.local_header_rel_offset)
             ELSE IF me.pc = "rewind"
             THEN Moved([workers EXCEPT ![w].pc = "header"], w, cd.local_header_rel_offset)
             ELSE IF me.pc = "header"
             THEN LET header == parse_header(source, Cursor(w))
                  IN  IF header.ok
                      THEN Moved([workers EXCEPT ![w].pc = "seek_data", ![w].header = header.val],
                                 w, header.pos)
                      ELSE Moved([workers EXCEPT ![w].pc = "done", ![w].res = Result(header)],
                                 w, header.pos)
             ELSE IF me.pc = "seek_data"
             THEN Moved([workers EXCEPT ![w].pc = "read"], w, me.header.data_offset)
             ELSE LET r == IF Cursor(w) + cd.compressed_size > Len(source)
                           THEN Eof(source, Cursor(w))
                           ELSE Ok(Bytes(source, Cursor(w), cd.compressed_size),
                                   Cursor(w) + cd.compressed_size)
                  IN  Moved([workers EXCEPT ![w].pc = "done", ![w].res = Result(r)], w, r.pos)
    /\ UNCHANGED << source, made, pos, reader, index, fs, xall, last, handles, run >>

\* ZipReader::new(source).
Open ==
    /\ reader = "none"
    /\ LET r == ZipReader_new(source, pos)
       IN  /\ reader' = IF r.ok THEN "open" ELSE "failed"
           /\ index' = IF r.ok THEN r.val ELSE << >>
           /\ pos' = r.pos
           /\ last' = Call("new", << >>, pos, [r EXCEPT !.val = << >>])
    /\ UNCHANGED << source, made, fs, xall, handles, run, workers >>

Ready == reader = "open" /\ xall.pc = "idle"

\* A dump_file that takes the entry it dumps out of the index.
DumpFile_take(path) ==
    /\ Ready
    /\ LET r == ZipReader_dump_file(source, pos, index, path)
       IN  /\ pos' = r.pos
           /\ last' = Call("dump_file", [path |-> path], pos, r)
    /\ index' = [k \in DOMAIN index \ {path} |-> index[k]]
    /\ UNCHANGED << source, made, reader, fs, xall, handles, run, workers >>

\* ZipReader::dump_file(filename).
DumpFile(path) ==
    /\ Ready
    /\ LET r == ZipReader_dump_file(source, pos, index, path)
       IN  /\ pos' = r.pos
           /\ last' = Call("dump_file", [path |-> path], pos, r)
    /\ UNCHANGED << source, made, reader, index, fs, xall, handles, run, workers >>

\* ZipReader::extract_file(filename, codec).
ExtractData(path, codec) ==
    /\ Ready
    /\ LET r == ZipReader_extract_file(source, pos, index, path, codec)
       IN  /\ pos' = r.pos
           /\ last' = Call("ZipReader_extract_file", [path |-> path, codec |-> codec], pos, r)
    /\ UNCHANGED << source, made, reader, index, fs, xall, handles, run, workers >>

\* ZipReader::index().iter(): a listing of the index.
List ==
    /\ Ready
    /\ last' = Call("iter", << >>, pos, Ok(iter(index), pos))
    /\ UNCHANGED << source, made, pos, reader, index, fs, xall, handles, run, workers >>

\* ZipReader::file_info(filename).
FileInfo(path) ==
    /\ Ready
    /\ LET r == file_info(pos, index, path)
       IN  /\ pos' = r.pos
           /\ last' = Call("file_info", [path |-> path], pos, r)
    /\ UNCHANGED << source, made, reader, index, fs, xall, handles, run, workers >>

\* What a call of extract_file was given and found.
ExtractArg(cd, where_to, codec) ==
    [cd |-> cd, where_to |-> where_to, codec |-> codec,
     where_existed |-> Exists(fs, where_to),
     dest_existed |-> Exists(fs, Join(where_to, cd.filename)),
     parent_existed |-> LET dest == Join(where_to, cd.filename)
                        IN  IsDir(fs, [dest EXCEPT !.comps = Parent(dest.comps)])]

\* extract_file(reader, cd, where_to, codec) with an entry of the index, on
\* the reader over the source.
ExtractFile(path, where_to, codec) ==
    /\ Ready
    /\ path \in DOMAIN index
    /\ LET r == extract_file(source, pos, fs, index[path], where_to, codec)
       IN  /\ pos' = r.pos
           /\ fs' = r.fs
           /\ last' = Call("extract_file", ExtractArg(index[path], where_to, codec), pos, r)
    /\ UNCHANGED << source, made, reader, index, xall, handles, run, workers >>

\* ZipReader::extract_all_files(dir, codec), up to the return of
\* build_directories: the file entries are collected, then the directories
\* are built; a failure of build_directories is the result of the call.
ExtractAllFiles(dir, codec) ==
    /\ Ready
    /\ LET fl == files(index)
           b == build_directories(fs, index, dir)
           arg == [dir |-> dir, codec |-> codec, where_existed |-> Exists(fs, dir)]
       IN  /\ fs' = b.fs
           /\ IF b.ok
              THEN /\ xall' = [pc |-> IF Len(fl) > 0 THEN "files" ELSE "return", dir |-> dir,
                               codec |-> codec, rest |-> fl,
                               where_existed |-> Exists(fs, dir), err |-> << >>]
                   /\ last' = Call("build_directories", arg, pos, b)
              ELSE /\ xall' = Idle
                   /\ last' = Call("extract_all_files", arg, pos, b)
    /\ UNCHANGED << source, made, reader, index, pos, handles, run, workers >>

\* One iteration of the loop of extract_all_files: extract_file of the next
\* file entry; its failure ends the loop.
ExtractAllNext ==
    /\ xall.pc = "files"
    /\ LET cd == xall.rest[1]
           r == extract_file(source, pos, fs, cd, xall.dir, xall.codec)
       IN  /\ pos' = r.pos
           /\ fs' = r.fs
           /\ last' = Call("extract_file", ExtractArg(cd, xall.dir, xall.codec), pos, r)
           /\ xall' = IF ~r.ok THEN [xall EXCEPT !.pc = "return", !.err = r.err]
                      ELSE IF Len(xall.rest) = 1 THEN [xall EXCEPT !.pc = "return", !.rest = << >>]
                      ELSE [xall EXCEPT !.rest = Tail(xall.rest)]
    /\ UNCHANGED << source, made, reader, index, handles, run, workers >>

\* A return of extract_all_files that marks every entry as a directory.
ExtractAllReturn_mark ==
    /\ xall.pc = "return"
    /\ last' = Call("extract_all_files",
                    [dir |-> xall.dir, codec |-> xall.codec, where_existed |-> xall.where_existed],
                    pos, [ok |-> xall.err = << >>, err |-> xall.err])
    /\ xall' = Idle
    /\ index' = [k \in DOMAIN index |-> [index[k] EXCEPT !.is_directory = TRUE]]
    /\ UNCHANGED << source, made, reader, pos, fs, handles, run, workers >>

\* extract_all_files returns: the failure of a file, or Ok(()).
ExtractAllReturn ==
    /\ xall.pc = "return"
    /\ last' = Call("extract_all_files",
                    [dir |-> xall.dir, codec |-> xall.codec, where_existed |-> xall.where_existed],
                    pos, [ok |-> xall.err = << >>, err |-> xall.err])
    /\ xall' = Idle
    /\ UNCHANGED << source, made, reader, index, pos, fs, handles, run, workers >>

Next ==
    \/ \E sig \in Signatures, h \in Hints : Scan(sig, h)
    \/ \E h \in Hints : IndexArchive(h)
    \/ \E h \in Hints : ReadIndexArchive(h)
    \/ IntensiveIndexArchive
    \/ Open
    \/ \E path \in DOMAIN index \cup {MissingPath} : DumpFile(path)
    \/ \E path \in DOMAIN index \cup {MissingPath}, codec \in Codecs : ExtractData(path, codec)
    \/ \E path \in DOMAIN index, where_to \in Dests, codec \in Codecs :
          ExtractFile(path, where_to, codec)
    \/ \E dir \in Dests, codec \in Codecs : ExtractAllFiles(dir, codec)
    \/ ExtractAllNext
    \/ ExtractAllReturn
    \/ List
    \/ \E path \in DOMAIN index \cup {MissingPath} : FileInfo(path)

Spec == Init /\ [][Next]_vars

\* Locating and indexing only: the scanner and ZipReader::new.
NextIndex ==
    \/ \E sig \in Signatures, h \in Hints : Scan(sig, h)
    \/ \E h \in Hints : IndexArchive(h)
    \/ Open
SpecIndex == Init /\ [][NextIndex]_vars

\* Opening and reading without writing to the filesystem.
NextRead ==
    \/ Open
    \/ \E path \in DOMAIN index \cup {MissingPath} : DumpFile(path)
    \/ \E path \in DOMAIN index \cup {MissingPath}, codec \in Codecs : ExtractData(path, codec)
    \/ \E path \in DOMAIN index \cup {MissingPath} : FileInfo(path)
SpecRead == Init /\ [][NextRead]_vars

\* Opening and writing to the filesystem.
NextWrite ==
    \/ Open
    \/ \E path \in DOMAIN index, where_to \in Dests, codec \in Codecs :
          ExtractFile(path, where_to, codec)
    \/ \E dir \in Dests, codec \in Codecs : ExtractAllFiles(dir, codec)
    \/ ExtractAllNext
    \/ ExtractAllReturn
SpecWrite == Init /\ [][NextWrite]_vars

\* The methods of ZipReader: new, index, dump_file, file_info, extract_file,
\* extract_all_files.
NextUse ==
    \/ Open
    \/ List
    \/ \E path \in DOMAIN index \cup {MissingPath} : DumpFile(path)
    \/ \E path \in DOMAIN index \cup {MissingPath} : FileInfo(path)
    \/ \E path \in DOMAIN index \cup {MissingPath}, codec \in Codecs : ExtractData(path, codec)
    \/ \E dir \in Dests, codec \in Codecs : ExtractAllFiles(dir, codec)
    \/ ExtractAllNext
    \/ ExtractAllReturn
SpecUse == Init /\ [][NextUse]_vars

\* Recovery: the indexers of read.rs.
NextRecover ==
    \/ \E h \in Hints : ReadIndexArchive(h)
    \/ IntensiveIndexArchive
SpecRecover == Init /\ [][NextRecover]_vars

\* Codec construction only.
NextCodec ==
    \E codec \in { "ZstdCodec_new", "GzipCodec_new" }, level \in Levels : NewCodec(codec, level)
SpecCodec == Init /\ [][NextCodec]_vars

\* The local-header decoder alone, on whole and cut local headers.
NextHeader == \E offset \in 0..MaxPad : ParseHeader(offset)
SpecHeader == InitHeader /\ [][NextHeader]_vars

\* Opening and writing to the filesystem, the archive carrying filenames
\* that leave the destination.
SpecEscape == InitEscape /\ [][NextWrite]_vars

\* The C interface: zip_open_buffer, zip_find_file, zip_close, zip_get_error.
NextFfi ==
    \/ ZipOpenBuffer
    \/ \E h \in {Null} \cup DOMAIN handles, filename \in FfiNames : ZipFindFile(h, filename)
    \/ \E h \in {Null} \cup DOMAIN handles : ZipClose(h)
    \/ \E h \in {Null} \cup DOMAIN handles : ZipGetError(h)
SpecFfi == Init /\ [][NextFfi]_vars

\* The indexers, one loop iteration at a time.  The loop is sequential
\* code: an iteration that can run does run.
NextRun ==
    \/ \E variant \in RunVariants, h \in RunHints : RunStart(variant, h)
    \/ RunStep
SpecRun == InitRun /\ [][NextRun]_vars /\ WF_vars(RunStep)

\* Workers that dump entries of one index, their steps interleaved.
NextWorkers ==
    \/ Open
    \/ \E w \in Workers, path \in DOMAIN index : WorkerStart(w, path)
    \/ \E w \in Workers : WorkerStep(w)
SpecWorkers == Init /\ [][NextWorkers]_vars

\* ================================================================== claims
\* Offsets at or after `from` where the four little-endian bytes of the
\* signature lie in the source.
Occurrences(s, signature, from) ==
    { o \in from..(Len(s) - 4) : SubSeq(s, o + 1, o + 4) = U32(signature) }
Least(S) == CHOOSE x \in S : \A y \in S : x <= y

\* The start of the scan of the last find_next_signature call.
ScanStart == IF last.arg.hint = None THEN last.before ELSE last.arg.hint[1]

\* C1: find_next_signature returns the smallest offset at or after the start
\* (the hint, or the read position) where the signature bytes occur, whenever
\* there is one, whatever bytes precede it.
C1_FindsFirstOccurrence ==
    (last.op = "find_next_signature"
        /\ Occurrences(source, last.arg.signature, ScanStart) # {})
    => (last.res.ok
        /\ last.res.val = Least(Occurrences(source, last.arg.signature, ScanStart)))

\* An archive as a ZIP writer leaves it, every member under a name of its
\* own, read from its first byte.
WellFormed ==
    /\ made.kind = "archive"
    /\ made.damage = "none"
    /\ \A i, j \in 1..Len(made.members) :
           made.members[i].name = made.members[j].name => i = j
\* total_number_of_central_directory_records of the EOCD record that ends a
\* well-formed archive (its comment is empty).
DeclaredRecords == ReadU16(source, (Len(source) - 22) + 10)

\* C2: ZipReader::new on a well-formed archive whose EOCD declares n records
\* yields an index of exactly n entries.
C2_IndexHoldsDeclaredCount ==
    (last.op = "new" /\ last.before = 0 /\ WellFormed)
    => (last.res.ok /\ Cardinality(DOMAIN index) = DeclaredRecords)

\* C3: ZipReader::new on a source that holds the EOCD signature nowhere fails
\* with EndOfCentralDirectoryNotFound, and no reader and no index exist.
C3_NoEocdSignatureFailsOpen ==
    (last.op = "new" /\ Occurrences(source, EOCD_SIG, 0) = {})
    => (/\ ~last.res.ok
        /\ last.res.err.kind = "EndOfCentralDirectoryNotFound"
        /\ reader = "failed"
        /\ index = << >>)

\* C3 witness: a source of some bytes without the signature was opened.
C3_Witness ==
    /\ last.op = "new"
    /\ Occurrences(source, EOCD_SIG, 0) = {}
    /\ Len(source) > 4
    /\ \E o \in 0..(Len(source) - 2) : source[o + 1] = 80 /\ source[o + 2] = 75

\* C4: ZipReader::dump_file of an indexed entry returns exactly
\* compressed_size bytes, the bytes of the source from the data_offset of the
\* local header at the entry's recorded offset, wherever the read position
\* was; when that range does not lie inside the source the call fails.
C4_DumpReturnsExactPayload ==
    (last.op = "dump_file" /\ last.arg.path \in DOMAIN index)
    => LET cd == index[last.arg.path]
           header == parse_header(source, cd.local_header_rel_offset)
       IN  IF header.ok /\ header.val.data_offset + cd.compressed_size <= Len(source)
           THEN /\ last.res.ok
                /\ Len(last.res.val) = cd.compressed_size
                /\ \A i \in 1..cd.compressed_size :
                       last.res.val[i] = source[header.val.data_offset + i]
           ELSE ~last.res.ok

\* C4 witness: a dump returned a payload with the read position somewhere
\* inside the source, where an earlier dump had left it.
C4_Witness ==
    /\ last.op = "dump_file"
    /\ last.res.ok
    /\ Len(last.res.val) > 0
    /\ last.before > 0
    /\ last.before < Len(source)
    /\ last.before # pos

\* The stored payload of an entry: its compressed_size bytes at the payload
\* start of its local header.
PayloadOf(cd) == dump_file(source, cd)

\* C5: a successful extract_file of a method-0 entry with the identity codec
\* leaves at destination/filename a file holding exactly the entry's payload.
C5_ExtractWritesPayload ==
    (/\ last.op = "extract_file"
     /\ last.res.ok
     /\ last.arg.cd.compression = 0
     /\ last.arg.codec = "NoCompressionCodec"
     /\ PayloadOf(last.arg.cd).ok)
    => LET w == Walk(fs, Join(last.arg.where_to, last.arg.cd.filename))
       IN  /\ w.st = "ok"
           /\ w.node \in DOMAIN fs.files
           /\ fs.files[w.node] = PayloadOf(last.arg.cd).val

\* C6: extract_file of an entry whose method differs from the codec's int_id
\* fails with MismatchedCompressionMethod(declared, supplied) and creates no
\* file at the destination (here: an existing directory without that file).
C6_MismatchLeavesDestination ==
    (/\ last.op = "extract_file"
     /\ last.arg.cd.compression # int_id(last.arg.codec)
     /\ last.arg.where_existed
     /\ last.arg.parent_existed
     /\ ~last.arg.dest_existed)
    => (/\ ~last.res.ok
        /\ last.res.err.kind = "MismatchedCompressionMethod"
        /\ last.res.err.a = last.arg.cd.compression
        /\ last.res.err.b = int_id(last.arg.codec)
        /\ ~Exists(fs, Join(last.arg.where_to, last.arg.cd.filename)))

\* C7: an extract_file call that finds destination/filename existing fails
\* and changes nothing on the filesystem.
C7_NoOverwrite ==
    [][(last'.op = "extract_file" /\ last'.arg.dest_existed)
       => (~last'.res.ok /\ fs' = fs)]_vars

\* C7 witness: extract_file was refused over an existing file that holds
\* bytes.
C7_Witness ==
    /\ last.op = "extract_file"
    /\ last.arg.dest_existed
    /\ LET w == Walk(fs, Join(last.arg.where_to, last.arg.cd.filename))
       IN  w.st = "ok" /\ w.node \in DOMAIN fs.files /\ fs.files[w.node] # << >>

\* C8: extract_file and extract_all_files given a destination directory that
\* does not exist fail and create nothing: the directory still does not
\* exist, whatever the index holds.
C8_MissingDestinationStaysMissing ==
    /\ (last.op = "extract_file" /\ ~last.arg.where_existed)
       => (~last.res.ok /\ ~Exists(fs, last.arg.where_to))
    /\ (last.op = "extract_all_files" /\ ~last.arg.where_existed)
       => (~last.res.ok /\ ~Exists(fs, last.arg.dir))

\* C9: while extract_all_files extracts files, and after it, the directory of
\* every directory entry of the index exists under the destination.
C9_DirectoriesBeforeFiles ==
    xall.pc # "idle"
    => \A k \in DOMAIN index :
           index[k].is_directory => IsDir(fs, Join(xall.dir, index[k].filename))

\* C9 witness: the file loop of extract_all_files is about to write its
\* first file, a file that comes before a directory entry in index order.
C9_Witness ==
    /\ xall.pc = "files"
    /\ Len(xall.rest) = Len(files(index))
    /\ \E k \in DOMAIN index :
           index[k].is_directory /\ PathLess(xall.rest[1].filename, k)

\* C10: extract_file of a method-0 entry with the identity codec into an
\* existing destination, the parent directory of destination/filename
\* missing, creates the parents and succeeds.
C10_MissingParentsCreated ==
    (/\ last.op = "extract_file"
     /\ last.arg.cd.compression = int_id(last.arg.codec)
     /\ last.arg.codec = "NoCompressionCodec"
     /\ last.arg.where_existed
     /\ ~last.arg.parent_existed)
    => (last.res.ok /\ Exists(fs, Join(last.arg.where_to, last.arg.cd.filename)))

\* The offset of the central-directory record of member i of the archive
\* the source is.
RecordOffset(i) ==
    Len(LocalPart(made.members, Len(made.members)))
    + Len(CentralPart(made.members, i - 1, made.damage))

C12_ListingsAgree ==
    [][(reader = "open" /\ reader' = "open") => iter(index') = iter(index)]_vars

\* C12 witness: a listing of two entries in path order, taken after an
\* extraction wrote to the filesystem and a read moved the read position.
C12_Witness ==
    /\ last.op = "iter"
    /\ Len(last.res.val) = 2
    /\ PathLess(last.res.val[1].path, last.res.val[2].path)
    /\ fs # InitFs
    /\ pos < Len(source)

\* The operations of a Reader that look a path up in the index.
Lookups == { "dump_file", "file_info", "ZipReader_extract_file" }

\* C13: dump_file, file_info and extract_file of a Reader, called with a path
\* that is no key of the index, return EntryNotFound carrying that path and
\* leave the read position of the source where it was.
C13_AbsentPathIsEntryNotFound ==
    (last.op \in Lookups /\ last.arg.path \notin DOMAIN index)
    => (/\ ~last.res.ok
        /\ last.res.err.kind = "EntryNotFound"
        /\ last.res.err.path = last.arg.path
        /\ pos = last.before)

\* C13 witness: a path was looked up that a non-empty index does not hold,
\* the read position being inside the source.
C13_Witness ==
    /\ last.op \in Lookups
    /\ last.arg.path \notin DOMAIN index
    /\ index # << >>
    /\ last.before > 0
    /\ last.before < Len(source)

\* C20: once ZipReader::new has returned, no operation changes the index:
\* its key set and every field of every entry stay what they were.
C20_IndexReadOnly ==
    [][reader = "open" => index' = index]_vars

\* C20 witness: an extract_all_files call failed after writing to the
\* filesystem, on a Reader whose index holds entries.
C20_Witness ==
    /\ last.op = "extract_all_files"
    /\ ~last.res.ok
    /\ index # << >>
    /\ fs # InitFs

\* The archive's last central-directory record cannot be decoded.
LastRecordBroken == made.kind = "archive" /\ made.damage \in { "cut_cd", "bad_utf8" }

\* C17: index_archive returns an index when every record the scan finds
\* decodes and the scan ends at the end of the stream; when the scan finds a
\* record that cannot be decoded (the source ends inside it, or its filename
\* is not UTF-8) the call returns that error and no index.
C17_DecodeFailureAborts ==
    last.op = "index_archive"
    => LET n == Len(made.members)
           from == IF last.arg.hint = None THEN 0 ELSE last.arg.hint[1]
       IN  IF LastRecordBroken
           THEN (from <= RecordOffset(n) /\ source[RecordOffset(n)] # 80)
                => (/\ ~last.res.ok
                    /\ last.res.val = << >>
                    /\ last.res.err.kind =
                           (IF made.damage = "cut_cd" THEN "IOError" ELSE "InvalidUtf8"))
           ELSE last.res.ok

\* C17 witness: index_archive decoded the first of two records and failed
\* on the second.
C17_Witness ==
    /\ last.op = "index_archive"
    /\ LastRecordBroken
    /\ Len(made.members) = 2
    /\ parse_central_dir(source, RecordOffset(1)).ok
    /\ ~last.res.ok

\* C18: after a call of find_next_signature has returned, with a hint or
\* without, the read position is the one before the call.
C18_PositionRestored ==
    last.op = "find_next_signature" => pos = last.before

\* C14: on a source that holds no EOCD signature, whatever else it holds,
\* intensive_index_archive returns a successful (possibly empty) result and
\* never an error.
C14_RecoveryNeverFails ==
    (last.op = "intensive_index_archive" /\ Occurrences(source, EOCD_SIG, 0) = {})
    => last.res.ok

\* C15: intensive_index_archive scans the whole stream for local file
\* headers: on a stream of local file headers and payloads with no central-
\* directory record, every member's filename is in the result, as
\* ZipEntry::LocalFileHeader.
C15_LocalHeadersRecovered ==
    (last.op = "intensive_index_archive" /\ made.kind = "archive" /\ made.damage = "no_cd")
    => /\ last.res.ok
       /\ \A i \in 1..Len(made.members) :
              /\ made.members[i].name \in DOMAIN last.res.val
              /\ last.res.val[made.members[i].name].tag = "LocalFileHeader"

\* C16: in the result of intensive_index_archive every filename that has a
\* central-directory record maps to ZipEntry::CentralDirectory holding a
\* record of that filename, whether or not a local file header of the same
\* filename exists, and ZipEntry::LocalFileHeader appears only under a
\* filename with no central-directory record.  Checked on the archives whose
\* central directory is whole.
C16_CentralDirectoryWins ==
    (/\ last.op = "intensive_index_archive"
     /\ made.kind = "archive"
     /\ made.damage \in { "none", "no_eocd" }
     /\ last.res.ok)
    => LET names == { made.members[i].name : i \in 1..Len(made.members) }
       IN  /\ \A n \in names :
                  /\ n \in DOMAIN last.res.val
                  /\ last.res.val[n].tag = "CentralDirectory"
                  /\ last.res.val[n].rec.filename = n
           /\ \A n \in DOMAIN last.res.val :
                  last.res.val[n].tag = "LocalFileHeader" => n \notin names

\* The merge alone: no filename of the result
\* is tagged LocalFileHeader when index_archive decoded a record for it.
MergePrecedence ==
    (last.op = "intensive_index_archive" /\ last.res.ok)
    => LET cd_index == read_index_archive(source, None)
       IN  \A n \in DOMAIN last.res.val :
              IF n \in DOMAIN cd_index.val
              THEN last.res.val[n] = ZipEntry_CentralDirectory(cd_index.val[n])
              ELSE last.res.val[n].tag = "LocalFileHeader"

\* C19: no operation of the reader aborts or panics: every failure,
\* those inside the codec during extraction included, is an error value
\* returned by the operation.
C19_NoPanic == ~last.res.ok => last.res.err.kind # "Panic"

\* The levels gzip (deflate) takes.
GzipLevels == 0..9

\* C23: constructing a codec that takes a compression level with a level
\* outside the codec's supported range fails with InvalidCompressionLevel:
\* no codec value holds an out-of-range level.
C23_LevelValidatedAtConstruction ==
    /\ (last.op = "ZstdCodec_new" /\ last.arg.level \notin compression_level_range)
       => (~last.res.ok /\ last.res.err.kind = "InvalidCompressionLevel")
    /\ (last.op = "GzipCodec_new" /\ last.arg.level \notin GzipLevels)
       => (~last.res.ok /\ last.res.err.kind = "InvalidCompressionLevel")

\* The ZstdCodec half of C23.
ZstdLevelValidated ==
    last.op = "ZstdCodec_new"
    => IF last.arg.level \in compression_level_range
       THEN last.res.ok /\ last.res.val.level = last.arg.level
       ELSE ~last.res.ok /\ last.res.err.kind = "InvalidCompressionLevel"

\* The ZIP layout of a local file header at offset o of s: whether four
\* bytes are there, whether they are the signature, and whether the stream
\* ends before the header (30 bytes, filename, extra field) does.
HasSignatureBytes(s, o) == o + 4 <= Len(s)
HeaderEndsEarly(s, o) ==
    \/ ~HasSignatureBytes(s, o)
    \/ /\ ReadU32(s, o) = LFH_SIG
       /\ \/ o + 30 > Len(s)
          \/ o + 30 + ReadU16(s, o + 26) + ReadU16(s, o + 28) > Len(s)

\* C25: parse_header at an offset where the stream ends before the local
\* header is complete fails with InvalidEntry(offset); it fails with
\* InvalidSignature exactly when four bytes are read at the offset and they
\* are not the local-header signature.
C25_PrematureEndIsInvalidEntry ==
    last.op = "parse_header"
    => LET o == last.arg.offset
       IN  /\ HeaderEndsEarly(source, o)
              => (/\ ~last.res.ok
                  /\ last.res.err.kind = "InvalidEntry"
                  /\ last.res.err.a = o)
           /\ (~last.res.ok /\ last.res.err.kind = "InvalidSignature")
              <=> (HasSignatureBytes(source, o) /\ ReadU32(source, o) # LFH_SIG)

\* C26: for a local file header of the ZIP layout at offset o with filename
\* length n and extra-field length m, parse_header returns data_offset =
\* o + 30 + n + m and the n bytes at o + 30 as the filename, whatever the
\* flags, bit 3 included.
C26_DataOffsetFollowsLayout ==
    (/\ last.op = "parse_header"
     /\ made.kind = "header"
     /\ made.damage = "none"
     /\ last.arg.offset + 4 <= Len(source)
     /\ ReadU32(source, last.arg.offset) = LFH_SIG)
    => LET o == last.arg.offset
           m == made.members[1]
       IN  /\ last.res.ok
           /\ last.res.val.data_offset = o + 30 + Len(m.name)
           /\ last.res.val.filename = PathOf(m.name)

\* C26 for the headers whose flags have bit 3 clear.
DataOffsetWithoutBit3 ==
    (/\ last.op = "parse_header"
     /\ made.kind = "header"
     /\ made.damage = "none"
     /\ last.arg.offset + 4 <= Len(source)
     /\ ReadU32(source, last.arg.offset) = LFH_SIG
     /\ made.members[1].flags = 0)
    => /\ last.res.ok
       /\ last.res.val.data_offset = last.arg.offset + 30 + Len(made.members[1].name)
       /\ last.res.val.filename = PathOf(made.members[1].name)

\* The InvalidSignature half of C25.
InvalidSignatureExactly ==
    last.op = "parse_header"
    => ((~last.res.ok /\ last.res.err.kind = "InvalidSignature")
        <=> (HasSignatureBytes(source, last.arg.offset)
             /\ ReadU32(source, last.arg.offset) # LFH_SIG))

\* C28: every directory flag the reader exposes is derived from zero
\* uncompressed size: an index entry's is_directory is true iff its
\* uncompressed size is 0, and file_info(path).is_dir equals it.
C28_DirectoryFlagDerived ==
    reader = "open"
    => /\ \A k \in DOMAIN index :
              index[k].is_directory <=> (index[k].uncompressed_size = 0)
       /\ (last.op = "file_info" /\ last.res.ok)
          => last.res.val.is_dir = index[last.arg.path].is_directory

\* The index half of C28.
IndexFlagDerived ==
    reader = "open"
    => \A k \in DOMAIN index : index[k].is_directory <=> (index[k].uncompressed_size = 0)

\* What extraction has created: the directories and files the filesystem
\* did not hold before.
Created == (fs.dirs \cup DOMAIN fs.files) \ (InitFs.dirs \cup DOMAIN InitFs.files)
\* Whether node is dir or lies below it.
Inside(node, dir) == Len(dir) <= Len(node) /\ SubSeq(node, 1, Len(dir)) = dir

\* C27: every file or directory that extract_file, build_directories or
\* extract_all_files creates lies inside the destination directory (here:
\* inside one of the destinations the callers name), whatever the filename,
\* absolute filenames and filenames with ".." included.
C27_CreatedInsideDestination ==
    \A node \in Created : \E d \in Dests : Inside(node, Cwd \o d.comps)

\* C21: zip_close is idempotent on a handle zip_open_buffer returned: the
\* first call releases the handle and a later call on it has no effect; no
\* handle is released twice and no released handle is accessed.
C21_CloseIdempotent ==
    (last.op = "zip_close" /\ last.arg.reader # Null)
    => /\ handles[last.arg.reader].releases <= 1
       /\ ~handles[last.arg.reader].stale

\* C22: a fallible operation of the C interface reports its failure through
\* its return value or the stored error, without unwinding: zip_find_file on
\* an open handle returns without panicking, whatever the name (absent from
\* the index, not UTF-8), and after zip_open_buffer on a buffer that is not
\* an archive zip_get_error is not null.
C22_NoUnwindAcrossBoundary ==
    /\ (/\ last.op = "zip_find_file"
        /\ last.arg.reader # Null
        /\ handles[last.arg.reader].state = "live")
       => last.res.ok
    /\ (/\ last.op = "zip_get_error"
        /\ last.arg.reader # Null
        /\ handles[last.arg.reader].state = "live"
        /\ ~ZipReader_new(source, 0).ok)
       => (last.res.ok /\ last.res.val # "null")

\* The zip_open_buffer half of C22.
OpenFailureIsStored ==
    (/\ last.op = "zip_get_error"
     /\ last.arg.reader # Null
     /\ handles[last.arg.reader].state = "live")
    => /\ last.res.ok
       /\ (last.res.val = "null") <=> ZipReader_new(source, 0).ok
       /\ ~ZipReader_new(source, 0).ok => last.res.val = Some(ZipReader_new(source, 0).err)

\* The loop run step by step returns what the indexer returns as a whole.
RunAgrees ==
    run.pc = "done"
    => run.res = Result(IF run.variant = "index_archive" THEN index_archive(source, run.arg)
                        ELSE IF run.variant = "read_index_archive"
                        THEN read_index_archive(source, run.arg)
                        ELSE intensive_index_archive(source))

\* C24: in index_archive, after the record found at offset o with total
\* length len is decoded, the next signature scan starts at o + len, for
\* every starting hint: no record is decoded twice in a run and no scan
\* starts inside a record already decoded.
C24_ScanResumesAfterRecord ==
    (run.variant = "index_archive" /\ run.pc \in { "cd", "done" })
    => /\ \A i \in 1..Len(run.steps) :
              LET next == IF i < Len(run.steps) THEN run.steps[i + 1].from ELSE run.hint
              IN  next = run.steps[i].offset + run.steps[i].len
       /\ \A i, j \in 1..Len(run.steps) :
              i # j => run.steps[i].offset # run.steps[j].offset

\* C30: index_archive and intensive_index_archive terminate on every
\* finite stream and every hint, also when central-directory signatures
\* appear inside filenames: a loop that was entered returns.
C30_IndexersTerminate == (run.pc \in { "cd", "lh" }) ~> (run.pc = "done")

\* Each iteration that goes on to the next one moves the scan start
\* forward and leaves it inside the stream.
ScanStartAdvances ==
    [][(run.pc = "cd" /\ run'.pc = "cd") => (run'.hint > run.hint /\ run'.hint <= Len(source))]_vars

\* An indexer has returned after decoding what the scan found at a
\* central-directory signature that is the filename of a member.
C30_Witness ==
    /\ run.pc = "done"
    /\ \E i \in 1..Len(run.steps) :
          \E n \in 1..Len(made.members) :
             /\ made.members[n].name = U32(CD_SIG)
             /\ run.steps[i].offset = RecordOffset(n) + 46

\* C29: when several workers, each with a cursor of its own over the same
\* bytes, read the same index, every dump_file call returns, under every
\* interleaving of the workers' seek and read steps, what the call returns
\* when it runs alone.
C29_InterleavingIsSequential ==
    \A w \in Workers :
        workers[w].pc = "done"
        => workers[w].res = Result(dump_file(source, index[workers[w].path]))

\* Two workers have returned payloads of different entries.
C29_Witness ==
    \E w1, w2 \in Workers :
        /\ w1 # w2
        /\ workers[w1].pc = "done" /\ workers[w2].pc = "done"
        /\ workers[w1].res.ok /\ workers[w2].res.ok
        /\ workers[w1].path # workers[w2].path
        /\ workers[w1].res.val # workers[w2].res.val

====
